---- MODULE Spec2Model ----
(***************************************************************************)
(* SmartEditor of PaperSmith.py: the block-boundary repair pass            *)
(* (auto_fix_spacing), the list continuation on a line break               *)
(* (keyPressEvent) and the task toggle (check_task_toggle), together with  *)
(* the synchronous delivery of the editing surface's two notifications     *)
(* (textChanged, cursorPositionChanged) that connects them.                *)
(*                                                                         *)
(* The buffer is a sequence of lines (the document's blocks); a line is a  *)
(* sequence of one-character strings.  The caret is a character offset in  *)
(* the whole text, a line separator counting for one character.            *)
(***************************************************************************)
EXTENDS Integers, Sequences, FiniteSets, TLC

VARIABLES doc, cur, sel, is_fixing, blocked, stack, event, keys,
          debounce_timer, renders

vars == <<doc, cur, sel, is_fixing, blocked, stack, event, keys,
          debounce_timer, renders>>

\* the editing surface and its handlers
editor == <<doc, cur, sel, is_fixing, blocked, stack, event, keys>>

\* the preview side: whether debounce_timer is running, and the calls of
\* update_preview since textChanged was last emitted
preview == <<debounce_timer, renders>>

(***************************************************************************)
(* Bounds of the explored sessions.                                        *)
(***************************************************************************)
\* lines of a file opened in the event sessions
MaxLines == 2
\* lines of a text opened or pasted in the repair sessions
MaxPassLines == 3
\* keystrokes and caret moves of a session after the file was opened
MaxKeys == 2
\* calls of update_preview counted between two emissions of textChanged
MaxRenders == 2

(***************************************************************************)
(* Characters.                                                             *)
(***************************************************************************)
WS == {" ", "\t"}

\* the grave accent (U+0060), which a string of this notation cannot hold
Backtick == "grave"

DigitSeq == <<"0", "1", "2", "3", "4", "5", "6", "7", "8", "9">>

Digits == {DigitSeq[i] : i \in 1..10}

(***************************************************************************)
(* Sequence helpers.                                                       *)
(***************************************************************************)
Min(a, b) == IF a <= b THEN a ELSE b

Take(s, n) == SubSeq(s, 1, Min(n, Len(s)))

Drop(s, n) == SubSeq(s, n + 1, Len(s))

Reverse(s) == [i \in 1..Len(s) |-> s[Len(s) + 1 - i]]

\* number of consecutive characters of s, from index i on, that lie in S
RECURSIVE RunFrom(_, _, _)
RunFrom(s, S, i) ==
    IF i <= Len(s) /\ s[i] \in S THEN 1 + RunFrom(s, S, i + 1) ELSE 0

\* length of the longest prefix of s whose characters all lie in S
Run(s, S) == RunFrom(s, S, 1)

\* number of consecutive characters of s, from index i back, that lie in S
RECURSIVE RunBack(_, _, _)
RunBack(s, S, i) ==
    IF i >= 1 /\ s[i] \in S THEN 1 + RunBack(s, S, i - 1) ELSE 0

\* str.lstrip() and str.strip()
lstrip(text) == Drop(text, Run(text, WS))

strip(text) ==
    IF Run(text, WS) = Len(text) THEN <<>>
    ELSE SubSeq(text, Run(text, WS) + 1,
                Len(text) - RunBack(text, WS, Len(text)))

startswith(text, p) == Len(text) >= Len(p) /\ SubSeq(text, 1, Len(p)) = p

\* int() of a run of decimal digits and str() of a natural number
DigitVal(c) == (CHOOSE i \in 1..10 : DigitSeq[i] = c) - 1

RECURSIVE int(_)
int(ds) == IF ds = <<>> THEN 0
           ELSE 10 * int(SubSeq(ds, 1, Len(ds) - 1)) + DigitVal(ds[Len(ds)])

RECURSIVE str(_)
str(n) == IF n < 10 THEN <<DigitSeq[n + 1]>>
          ELSE str(n \div 10) \o <<DigitSeq[(n % 10) + 1]>>

(***************************************************************************)
(* The document: block positions and the caret's block.                    *)
(***************************************************************************)
\* QTextBlock.position() of block i
RECURSIVE BlockPosition(_, _)
BlockPosition(d, i) == IF i <= 1 THEN 0
                       ELSE BlockPosition(d, i - 1) + Len(d[i - 1]) + 1

\* offset of the end of the text
Size(d) == BlockPosition(d, Len(d)) + Len(d[Len(d)])

\* QTextCursor.block(): the block holding offset p
BlockOf(d, p) == CHOOSE i \in 1..Len(d) :
                    /\ BlockPosition(d, i) <= p
                    /\ p <= BlockPosition(d, i) + Len(d[i])

\* QTextCursor.positionInBlock()
PositionInBlock(d, p) == p - BlockPosition(d, BlockOf(d, p))

\* QTextCursor.insertText(t) at offset p, t given as its lines
InsertText(d, p, t) ==
    LET i == BlockOf(d, p)
        k == PositionInBlock(d, p)
        L == Take(d[i], k)
        R == Drop(d[i], k)
        new == IF Len(t) = 1 THEN << L \o t[1] \o R >>
               ELSE << L \o t[1] >> \o SubSeq(t, 2, Len(t) - 1)
                    \o << t[Len(t)] \o R >>
    IN  SubSeq(d, 1, i - 1) \o new \o SubSeq(d, i + 1, Len(d))

\* number of characters of a text given as its lines
RECURSIVE TextLen(_)
TextLen(t) == IF Len(t) = 1 THEN Len(t[1])
              ELSE Len(t[1]) + 1 + TextLen(Tail(t))

(***************************************************************************)
(* Line Classifier and Conflict Rule Table.                                *)
(***************************************************************************)
identify_block_type(text) ==
    LET clean_text == lstrip(text)
        stripped_text == strip(clean_text)
        hashes == Run(clean_text, {"#"})
        digs == Run(clean_text, Digits)
    IN  IF stripped_text = <<>> THEN "empty"
        ELSE IF /\ hashes >= 1 /\ hashes <= 6
                /\ Len(clean_text) > hashes
                /\ clean_text[hashes + 1] \in WS THEN "text"
        ELSE IF /\ Len(clean_text) >= 5
                /\ clean_text[1] \in {"-", "*"}
                /\ clean_text[2] \in WS
                /\ clean_text[3] = "["
                /\ clean_text[4] \in {"x", "X", " "}
                /\ clean_text[5] = "]" THEN "task"
        ELSE IF /\ Len(clean_text) >= 2
                /\ clean_text[1] \in {"-", "*", "+"}
                /\ clean_text[2] \in WS THEN "ul"
        ELSE IF /\ digs >= 1
                /\ Len(clean_text) > digs
                /\ clean_text[digs + 1] = "." THEN "ol"
        ELSE IF /\ Len(stripped_text) >= 3
                /\ Run(stripped_text, {"-", "*", "_"}) = Len(stripped_text)
             THEN "hr"
        ELSE IF stripped_text[1] = "|" THEN "table"
        ELSE "text"

get_indent(text) == Run(text, WS)

list_types == {"ul", "ol", "task"}

\* check_conflict with the text-to-list rule made to depend on the indents
check_conflict_indent(t1, t2, i1, i2) ==
    IF t1 = "empty" THEN FALSE
    ELSE IF t2 = "empty" THEN FALSE
    ELSE IF t1 = "text" /\ t2 \in list_types /\ i2 <= i1 THEN TRUE
    ELSE IF t1 \in list_types /\ t2 = "text" /\ i2 <= i1 THEN TRUE
    ELSE IF t1 \in list_types /\ t2 \in list_types /\ t1 # t2 /\ i2 <= i1
         THEN TRUE
    ELSE IF t1 # "table" /\ t2 = "table" THEN TRUE
    ELSE IF t1 = "table" /\ t2 # "table" THEN TRUE
    ELSE FALSE

\* check_conflict with the table rule for entering a table only
check_conflict_table_in(t1, t2, i1, i2) ==
    IF t1 = "empty" THEN FALSE
    ELSE IF t2 = "empty" THEN FALSE
    ELSE IF t1 = "text" /\ t2 \in list_types THEN TRUE
    ELSE IF t1 \in list_types /\ t2 = "text" /\ i2 <= i1 THEN TRUE
    ELSE IF t1 \in list_types /\ t2 \in list_types /\ t1 # t2 /\ i2 <= i1
         THEN TRUE
    ELSE IF t1 # "table" /\ t2 = "table" THEN TRUE
    ELSE FALSE

\* check_conflict without the test t1 != t2 in the list-to-list rule
check_conflict_lists(t1, t2, i1, i2) ==
    IF t1 = "empty" THEN FALSE
    ELSE IF t2 = "empty" THEN FALSE
    ELSE IF t1 = "text" /\ t2 \in list_types THEN TRUE
    ELSE IF t1 \in list_types /\ t2 = "text" /\ i2 <= i1 THEN TRUE
    ELSE IF t1 \in list_types /\ t2 \in list_types /\ i2 <= i1 THEN TRUE
    ELSE IF t1 # "table" /\ t2 = "table" THEN TRUE
    ELSE IF t1 = "table" /\ t2 # "table" THEN TRUE
    ELSE FALSE

\* check_conflict with i2 < i1 in place of i2 <= i1 in the list-to-text rule
check_conflict_strict(t1, t2, i1, i2) ==
    IF t1 = "empty" THEN FALSE
    ELSE IF t2 = "empty" THEN FALSE
    ELSE IF t1 = "text" /\ t2 \in list_types THEN TRUE
    ELSE IF t1 \in list_types /\ t2 = "text" /\ i2 < i1 THEN TRUE
    ELSE IF t1 \in list_types /\ t2 \in list_types /\ t1 # t2 /\ i2 <= i1
         THEN TRUE
    ELSE IF t1 # "table" /\ t2 = "table" THEN TRUE
    ELSE IF t1 = "table" /\ t2 # "table" THEN TRUE
    ELSE FALSE

check_conflict(t1, t2, i1, i2) ==
    IF t1 = "empty" THEN FALSE
    ELSE IF t2 = "empty" THEN FALSE
    ELSE IF t1 = "text" /\ t2 \in list_types THEN TRUE
    ELSE IF t1 \in list_types /\ t2 = "text" /\ i2 <= i1 THEN TRUE
    ELSE IF t1 \in list_types /\ t2 \in list_types /\ t1 # t2 /\ i2 <= i1
         THEN TRUE
    ELSE IF t1 # "table" /\ t2 = "table" THEN TRUE
    ELSE IF t1 = "table" /\ t2 # "table" THEN TRUE
    ELSE FALSE

\* a line that toggles the code-fence mode
IsFence(text) == startswith(strip(text), <<Backtick, Backtick, Backtick>>)

(***************************************************************************)
(* Boundary Repair Pass: the scan and the application of the plan.         *)
(***************************************************************************)
\* the locals of the scan before the first block
ScanStart == [insert_positions |-> <<>>, prev_type |-> "empty",
              prev_indent |-> 0, in_code_block |-> FALSE, classified |-> {}]

\* ScanBlock with an empty line leaving prev_type and prev_indent as they
\* were (the last non-empty classification is kept)
ScanBlock_keep_prev(d, i, st) ==
    LET text == d[i]
    IN  IF IsFence(text)
        THEN [st EXCEPT !.in_code_block = ~st.in_code_block,
                        !.prev_type = "code_fence", !.prev_indent = 0]
        ELSE IF st.in_code_block THEN st
        ELSE LET curr_type == identify_block_type(text)
                 curr_indent == get_indent(text)
                 hit == check_conflict(st.prev_type, curr_type,
                                       st.prev_indent, curr_indent)
             IN  [insert_positions |->
                      IF hit THEN Append(st.insert_positions,
                                         BlockPosition(d, i))
                      ELSE st.insert_positions,
                  prev_type |-> IF curr_type # "empty" THEN curr_type
                                ELSE st.prev_type,
                  prev_indent |-> IF curr_type # "empty" THEN curr_indent
                                  ELSE st.prev_indent,
                  in_code_block |-> st.in_code_block,
                  classified |-> st.classified \cup {i}]

\* ScanBlock without the skip of the lines inside a code fence
ScanBlock_no_skip(d, i, st) ==
    LET text == d[i]
    IN  IF IsFence(text)
        THEN [st EXCEPT !.in_code_block = ~st.in_code_block,
                        !.prev_type = "code_fence", !.prev_indent = 0]
        ELSE LET curr_type == identify_block_type(text)
                 curr_indent == get_indent(text)
                 hit == check_conflict(st.prev_type, curr_type,
                                       st.prev_indent, curr_indent)
             IN  [insert_positions |->
                      IF hit THEN Append(st.insert_positions,
                                         BlockPosition(d, i))
                      ELSE st.insert_positions,
                  prev_type |-> curr_type,
                  prev_indent |-> IF curr_type # "empty" THEN curr_indent
                                  ELSE 0,
                  in_code_block |-> st.in_code_block,
                  classified |-> st.classified \cup {i}]

\* ScanBlock with a fence line always entering the code-fence mode
ScanBlock_fence_opens(d, i, st) ==
    LET text == d[i]
    IN  IF IsFence(text)
        THEN [st EXCEPT !.in_code_block = TRUE,
                        !.prev_type = "code_fence", !.prev_indent = 0]
        ELSE IF st.in_code_block THEN st
        ELSE LET curr_type == identify_block_type(text)
                 curr_indent == get_indent(text)
                 hit == check_conflict(st.prev_type, curr_type,
                                       st.prev_indent, curr_indent)
             IN  [insert_positions |->
                      IF hit THEN Append(st.insert_positions,
                                         BlockPosition(d, i))
                      ELSE st.insert_positions,
                  prev_type |-> curr_type,
                  prev_indent |-> IF curr_type # "empty" THEN curr_indent
                                  ELSE 0,
                  in_code_block |-> st.in_code_block,
                  classified |-> st.classified \cup {i}]

\* one turn of the while loop, on block i; classified collects the blocks
\* handed to identify_block_type
ScanBlock(d, i, st) ==
    LET text == d[i]
    IN  IF IsFence(text)
        THEN [st EXCEPT !.in_code_block = ~st.in_code_block,
                        !.prev_type = "code_fence", !.prev_indent = 0]
        ELSE IF st.in_code_block THEN st
        ELSE LET curr_type == identify_block_type(text)
                 curr_indent == get_indent(text)
                 hit == check_conflict(st.prev_type, curr_type,
                                       st.prev_indent, curr_indent)
             IN  [insert_positions |->
                      IF hit THEN Append(st.insert_positions,
                                         BlockPosition(d, i))
                      ELSE st.insert_positions,
                  prev_type |-> curr_type,
                  prev_indent |-> IF curr_type # "empty" THEN curr_indent
                                  ELSE 0,
                  in_code_block |-> st.in_code_block,
                  classified |-> st.classified \cup {i}]

\* the locals after the blocks 1..n (the locals after block n - 1 are
\* computed once, then handed to the turn on block n)
RECURSIVE Scan(_, _)
Scan(d, n) ==
    IF n = 0 THEN ScanStart
    ELSE CHOOSE r \in {ScanBlock(d, n, st) : st \in {Scan(d, n - 1)}} : TRUE

\* insert_positions when the while loop ends
InsertPositions(d) == Scan(d, Len(d)).insert_positions

\* ApplyInserts with each line break inserted one character after the
\* recorded offset
RECURSIVE ApplyInserts_inside(_, _, _)
ApplyInserts_inside(d, rev, n) ==
    IF n = 0 THEN d
    ELSE CHOOSE r \in {InsertText(t, rev[n] + 1, <<<<>>, <<>>>>) :
                          t \in {ApplyInserts_inside(d, rev, n - 1)}} : TRUE

\* the for loop over reversed(insert_positions): the text after the
\* insertions of the first n reversed positions
RECURSIVE ApplyInserts(_, _, _)
ApplyInserts(d, rev, n) ==
    IF n = 0 THEN d
    ELSE CHOOSE r \in {InsertText(t, rev[n], <<<<>>, <<>>>>) :
                          t \in {ApplyInserts(d, rev, n - 1)}} : TRUE

\* the for loop over reversed(insert_positions): old_pos after the first n
RECURSIVE ShiftOldPos(_, _, _)
ShiftOldPos(old_pos, rev, n) ==
    IF n = 0 THEN old_pos
    ELSE CHOOSE r \in {IF rev[n] <= o THEN o + 1 ELSE o :
                          o \in {ShiftOldPos(old_pos, rev, n - 1)}} : TRUE

\* the editing surface moves its own cursor over each insertion made at or
\* before it
RECURSIVE AdjustCursor(_, _, _)
AdjustCursor(p, rev, n) ==
    IF n = 0 THEN p
    ELSE CHOOSE r \in {IF q < rev[n] THEN q ELSE q + 1 :
                          q \in {AdjustCursor(p, rev, n - 1)}} : TRUE

(***************************************************************************)
(* The line grammars of keyPressEvent and check_task_toggle.               *)
(***************************************************************************)
\* re.match(r'^(\s*)([-*]) \[[xX ]\]\s+', text): group(1), group(2) and
\* the length of group(0), or no match
task_match(text) ==
    LET n == Run(text, WS)
        r == Drop(text, n)
    IN  IF /\ Len(r) >= 6
           /\ r[1] \in {"-", "*"}
           /\ r[2] = " "
           /\ r[3] = "["
           /\ r[4] \in {"x", "X", " "}
           /\ r[5] = "]"
           /\ r[6] \in WS
        THEN [ok |-> TRUE, indent |-> Take(text, n), marker |-> r[1],
              end |-> n + 5 + Run(Drop(r, 5), WS)]
        ELSE [ok |-> FALSE, indent |-> <<>>, marker |-> "", end |-> 0]

\* re.match(r'^(\s*)([-*+])\s+', text)
ul_match(text) ==
    LET n == Run(text, WS)
        r == Drop(text, n)
    IN  IF /\ Len(r) >= 2
           /\ r[1] \in {"-", "*", "+"}
           /\ r[2] \in WS
        THEN [ok |-> TRUE, indent |-> Take(text, n), marker |-> r[1],
              end |-> n + 1 + Run(Drop(r, 1), WS)]
        ELSE [ok |-> FALSE, indent |-> <<>>, marker |-> "", end |-> 0]

\* re.match(r'^(\s*)(\d+)\.\s+', text); marker is the run of digits
ol_match(text) ==
    LET n == Run(text, WS)
        r == Drop(text, n)
        k == Run(r, Digits)
    IN  IF /\ k >= 1
           /\ Len(r) >= k + 2
           /\ r[k + 1] = "."
           /\ r[k + 2] \in WS
        THEN [ok |-> TRUE, indent |-> Take(text, n), marker |-> Take(r, k),
              end |-> n + k + 1 + Run(Drop(r, k + 1), WS)]
        ELSE [ok |-> FALSE, indent |-> <<>>, marker |-> <<>>, end |-> 0]

\* re.search(r'^(\s*[-*]\s*)\[([ xX]*)\]', text): len(group(1)), group(2)
\* and match.end(), or no match
toggle_match(text) ==
    LET n == Run(text, WS)
        r == Drop(text, n)
        m == IF r # <<>> /\ r[1] \in {"-", "*"}
             THEN 1 + Run(Drop(r, 1), WS) ELSE 0
        b == Drop(r, m)
        c == IF b # <<>> THEN Run(Tail(b), {" ", "x", "X"}) ELSE 0
    IN  IF /\ m >= 1
           /\ Len(b) >= c + 2
           /\ b[1] = "["
           /\ b[c + 2] = "]"
        THEN [ok |-> TRUE, bracket_start |-> n + m,
              content |-> SubSeq(b, 2, c + 1), end |-> n + m + c + 2]
        ELSE [ok |-> FALSE, bracket_start |-> 0, content |-> <<>>,
              end |-> 0]

(***************************************************************************)
(* The editor.  stack holds the calls in progress, innermost first: the    *)
(* notifications still to be delivered and the points at which             *)
(* auto_fix_spacing and check_task_toggle resume.  Signals are direct      *)
(* calls, so a handler runs to its end before its emitter goes on.         *)
(***************************************************************************)
\* a call in progress: where it resumes and, for auto_fix_spacing, its
\* locals old_pos and insert_positions and the caret it started from
Frame(pc, old_pos, insert_positions, entry_pos) ==
    [pc |-> pc, old_pos |-> old_pos, insert_positions |-> insert_positions,
     entry_pos |-> entry_pos]

CursorPositionChanged == Frame("cursorPositionChanged", 0, <<>>, 0)

TextChanged == Frame("textChanged", 0, <<>>, 0)

ToggleEmit == Frame("toggle_emit", 0, <<>>, 0)

Quiescent == stack = <<>>

Init ==
    /\ doc = << <<>> >>
    /\ cur = 0
    /\ sel = FALSE
    /\ is_fixing = FALSE
    /\ blocked = FALSE
    /\ stack = <<>>
    /\ event = "none"
    /\ keys = 0
    /\ debounce_timer = FALSE
    /\ renders = 0

(***************************************************************************)
(* Boundary Repair Pass.                                                   *)
(***************************************************************************)
\* auto_fix_spacing raising is_fixing before it looks at the plan, so that
\* a pass with nothing to insert leaves the flag set
auto_fix_spacing_sticky ==
    /\ stack # <<>>
    /\ Head(stack).pc = "textChanged"
    /\ \E insert_positions \in {InsertPositions(doc)} :
       LET rev == Reverse(insert_positions)
           n == Len(rev)
           moved == AdjustCursor(cur, rev, n)
       IN  IF is_fixing
           THEN /\ stack' = Tail(stack)
                /\ UNCHANGED <<doc, cur, sel, is_fixing>>
           ELSE IF insert_positions = <<>>
           THEN /\ is_fixing' = TRUE
                /\ stack' = Tail(stack)
                /\ UNCHANGED <<doc, cur, sel>>
           ELSE /\ is_fixing' = TRUE
                /\ doc' = ApplyInserts(doc, rev, n)
                /\ cur' = moved
                /\ stack' = (IF moved # cur THEN <<CursorPositionChanged>>
                             ELSE <<>>)
                            \o <<TextChanged,
                                 Frame("fix_restore",
                                       ShiftOldPos(cur, rev, n),
                                       insert_positions, cur)>>
                            \o Tail(stack)
                /\ UNCHANGED sel
    /\ UNCHANGED <<blocked, event, keys>>
    \* self.editor.textChanged.connect(self.debounce_timer.start)
    /\ debounce_timer' = TRUE
    /\ renders' = 0

\* auto_fix_spacing waiting for is_fixing to fall instead of returning
auto_fix_spacing_spin ==
    /\ stack # <<>>
    /\ Head(stack).pc = "textChanged"
    /\ \E insert_positions \in {InsertPositions(doc)} :
       LET rev == Reverse(insert_positions)
           n == Len(rev)
           moved == AdjustCursor(cur, rev, n)
       IN  IF is_fixing
           THEN UNCHANGED <<doc, cur, sel, is_fixing, stack>>
           ELSE IF insert_positions = <<>>
           THEN /\ stack' = Tail(stack)
                /\ UNCHANGED <<doc, cur, sel, is_fixing>>
           ELSE /\ is_fixing' = TRUE
                /\ doc' = ApplyInserts(doc, rev, n)
                /\ cur' = moved
                /\ stack' = (IF moved # cur THEN <<CursorPositionChanged>>
                             ELSE <<>>)
                            \o <<TextChanged,
                                 Frame("fix_restore",
                                       ShiftOldPos(cur, rev, n),
                                       insert_positions, cur)>>
                            \o Tail(stack)
                /\ UNCHANGED sel
    /\ UNCHANGED <<blocked, event, keys>>
    \* self.editor.textChanged.connect(self.debounce_timer.start)
    /\ debounce_timer' = TRUE
    /\ renders' = 0

\* textChanged reaches auto_fix_spacing: the guard, the scan and the
\* grouped insertions, up to the notifications the insertions raise
auto_fix_spacing ==
    /\ stack # <<>>
    /\ Head(stack).pc = "textChanged"
    /\ \E insert_positions \in {InsertPositions(doc)} :
       LET rev == Reverse(insert_positions)
           n == Len(rev)
           moved == AdjustCursor(cur, rev, n)
       IN  IF is_fixing \/ insert_positions = <<>>
           THEN /\ stack' = Tail(stack)
                /\ UNCHANGED <<doc, cur, sel, is_fixing>>
           ELSE /\ is_fixing' = TRUE
                /\ doc' = ApplyInserts(doc, rev, n)
                /\ cur' = moved
                /\ stack' = (IF moved # cur THEN <<CursorPositionChanged>>
                             ELSE <<>>)
                            \o <<TextChanged,
                                 Frame("fix_restore",
                                       ShiftOldPos(cur, rev, n),
                                       insert_positions, cur)>>
                            \o Tail(stack)
                /\ UNCHANGED sel
    /\ UNCHANGED <<blocked, event, keys>>
    \* self.editor.textChanged.connect(self.debounce_timer.start)
    /\ debounce_timer' = TRUE
    /\ renders' = 0

\* cursor.setPosition(old_pos); self.setTextCursor(cursor)
fix_restore ==
    /\ stack # <<>>
    /\ Head(stack).pc = "fix_restore"
    /\ cur' = Head(stack).old_pos
    /\ sel' = FALSE
    /\ stack' = (IF cur # Head(stack).old_pos THEN <<CursorPositionChanged>>
                 ELSE <<>>)
                \o <<[Head(stack) EXCEPT !.pc = "fix_done"]>> \o Tail(stack)
    /\ UNCHANGED <<doc, is_fixing, blocked, event, keys>>
    /\ UNCHANGED preview

\* self.is_fixing = False
fix_done ==
    /\ stack # <<>>
    /\ Head(stack).pc = "fix_done"
    /\ is_fixing' = FALSE
    /\ stack' = Tail(stack)
    /\ UNCHANGED <<doc, cur, sel, blocked, event, keys>>
    /\ UNCHANGED preview

(***************************************************************************)
(* Task Toggle Controller.                                                 *)
(***************************************************************************)
\* Flipped replacing one character more than the bracketed span
Flipped_eat(text, m) ==
    Take(text, m.bracket_start)
    \o <<"[", IF strip(m.content) = <<>> THEN "x" ELSE " ", "]">>
    \o Drop(text, m.end + 1)

\* Flipped checking a checkbox with a capital X
Flipped_upper(text, m) ==
    Take(text, m.bracket_start)
    \o <<"[", IF strip(m.content) = <<>> THEN "X" ELSE " ", "]">>
    \o Drop(text, m.end)

\* Flipped testing the content against one space, so that an empty
\* checkbox counts as checked
Flipped_nonempty(text, m) ==
    Take(text, m.bracket_start)
    \o <<"[", IF m.content = <<" ">> THEN "x" ELSE " ", "]">>
    \o Drop(text, m.end)

\* the text of block i with the bracketed span replaced by [x] or [ ]
Flipped(text, m) ==
    Take(text, m.bracket_start)
    \o <<"[", IF strip(m.content) = <<>> THEN "x" ELSE " ", "]">>
    \o Drop(text, m.end)

\* check_task_toggle without blockSignals: the replacement and the caret
\* move raise cursorPositionChanged and textChanged themselves
check_task_toggle_unblocked ==
    /\ stack # <<>>
    /\ Head(stack).pc = "cursorPositionChanged"
    /\ \E i \in {BlockOf(doc, cur)} :
       \E match \in {toggle_match(doc[i])} :
       \E block_position \in {BlockPosition(doc, i)} :
       LET text == doc[i]
           pos_in_block == cur - block_position
           bracket_start == match.bracket_start
           bracket_end == match.end - 1
           new == Flipped(text, match)
           target_pos == block_position + match.end
       IN  IF /\ ~sel
              /\ match.ok
              /\ bracket_start < pos_in_block
              /\ pos_in_block <= bracket_end
           THEN /\ blocked' = FALSE
                /\ doc' = [doc EXCEPT ![i] = new]
                /\ cur' = IF target_pos < block_position + Len(new) + 1
                          THEN target_pos
                          ELSE block_position + Len(new)
                /\ stack' = <<CursorPositionChanged, TextChanged, ToggleEmit>>
                            \o Tail(stack)
           ELSE /\ stack' = Tail(stack)
                /\ UNCHANGED <<doc, cur, blocked>>
    /\ UNCHANGED <<sel, is_fixing, event, keys>>
    /\ UNCHANGED preview

\* check_task_toggle without the test of cursor.hasSelection()
check_task_toggle_nosel ==
    /\ stack # <<>>
    /\ Head(stack).pc = "cursorPositionChanged"
    /\ \E i \in {BlockOf(doc, cur)} :
       \E match \in {toggle_match(doc[i])} :
       \E block_position \in {BlockPosition(doc, i)} :
       LET text == doc[i]
           pos_in_block == cur - block_position
           bracket_start == match.bracket_start
           bracket_end == match.end - 1
           new == Flipped(text, match)
           target_pos == block_position + match.end
       IN  IF /\ sel \in BOOLEAN
              /\ match.ok
              /\ bracket_start < pos_in_block
              /\ pos_in_block <= bracket_end
           THEN /\ blocked' = TRUE
                /\ doc' = [doc EXCEPT ![i] = new]
                /\ cur' = IF target_pos < block_position + Len(new) + 1
                          THEN target_pos
                          ELSE block_position + Len(new)
                /\ stack' = <<ToggleEmit>> \o Tail(stack)
           ELSE /\ stack' = Tail(stack)
                /\ UNCHANGED <<doc, cur, blocked>>
    /\ UNCHANGED <<sel, is_fixing, event, keys>>
    /\ UNCHANGED preview

\* cursorPositionChanged reaches check_task_toggle: up to setTextCursor,
\* with the signals of the editor blocked
check_task_toggle ==
    /\ stack # <<>>
    /\ Head(stack).pc = "cursorPositionChanged"
    /\ \E i \in {BlockOf(doc, cur)} :
       \E match \in {toggle_match(doc[i])} :
       \E block_position \in {BlockPosition(doc, i)} :
       LET text == doc[i]
           pos_in_block == cur - block_position
           bracket_start == match.bracket_start
           bracket_end == match.end - 1
           new == Flipped(text, match)
           target_pos == block_position + match.end
       IN  IF /\ ~sel
              /\ match.ok
              /\ bracket_start < pos_in_block
              /\ pos_in_block <= bracket_end
           THEN /\ blocked' = TRUE
                /\ doc' = [doc EXCEPT ![i] = new]
                /\ cur' = IF target_pos < block_position + Len(new) + 1
                          THEN target_pos
                          ELSE block_position + Len(new)
                /\ stack' = <<ToggleEmit>> \o Tail(stack)
           ELSE /\ stack' = Tail(stack)
                /\ UNCHANGED <<doc, cur, blocked>>
    /\ UNCHANGED <<sel, is_fixing, event, keys>>
    /\ UNCHANGED preview

\* toggle_emit without the textChanged.emit() after the flip
toggle_emit_silent ==
    /\ stack # <<>>
    /\ Head(stack).pc = "toggle_emit"
    /\ blocked' = FALSE
    /\ stack' = Tail(stack)
    /\ UNCHANGED <<doc, cur, sel, is_fixing, event, keys>>
    /\ UNCHANGED preview

\* self.blockSignals(False); self.textChanged.emit()
toggle_emit ==
    /\ stack # <<>>
    /\ Head(stack).pc = "toggle_emit"
    /\ blocked' = FALSE
    /\ stack' = <<TextChanged>> \o Tail(stack)
    /\ UNCHANGED <<doc, cur, sel, is_fixing, event, keys>>
    /\ UNCHANGED preview

(***************************************************************************)
(* List Continuation Controller.                                           *)
(***************************************************************************)
\* remove_current_line_marker: select(BlockUnderCursor) takes the block
\* and, when it is not the first one, the separator before it;
\* removeSelectedText; insertBlock.  The text and the caret afterwards.
remove_current_line_marker(d, p) ==
    LET i == BlockOf(d, p)
    IN  IF d[i] = <<>>
        THEN [doc |-> InsertText(d, p, <<<<>>, <<>>>>), cur |-> p + 1]
        ELSE IF i = 1
        THEN [doc |-> <<<<>>, <<>>>> \o Tail(d), cur |-> 1]
        ELSE [doc |-> [d EXCEPT ![i] = <<>>], cur |-> BlockPosition(d, i)]

\* insert_new_line_with_prefix followed by the default line break
insert_new_line_with_prefix_default(d, p, prefix) ==
    [doc |-> InsertText(InsertText(d, p, <<<<>>, prefix>>),
                        p + 1 + Len(prefix), <<<<>>, <<>>>>),
     cur |-> p + 2 + Len(prefix)]

\* insert_new_line_with_prefix: insertText("\n"); insertText(prefix)
insert_new_line_with_prefix(d, p, prefix) ==
    [doc |-> InsertText(d, p, <<<<>>, prefix>>), cur |-> p + 1 + Len(prefix)]

\* the keys of keyPressEvent other than those that insert a character
Key_Return == "Return"

Key_Backspace == "Backspace"

\* the default handling of a key by the editing surface
super_keyPressEvent(d, p, key) ==
    IF key = Key_Return
    THEN [doc |-> InsertText(d, p, <<<<>>, <<>>>>), cur |-> p + 1]
    ELSE IF key = Key_Backspace
    THEN LET i == BlockOf(d, p)
             k == PositionInBlock(d, p)
         IN  IF k > 0
             THEN [doc |-> [d EXCEPT ![i] = Take(d[i], k - 1) \o Drop(d[i], k)],
                   cur |-> p - 1]
             ELSE IF i > 1
             THEN [doc |-> SubSeq(d, 1, i - 2) \o <<d[i - 1] \o d[i]>>
                           \o SubSeq(d, i + 1, Len(d)),
                   cur |-> p - 1]
             ELSE [doc |-> d, cur |-> p]
    ELSE [doc |-> InsertText(d, p, << <<key>> >>), cur |-> p + 1]

\* ReturnBranch choosing the continuation by the block type of the line
\* instead of the three patterns of keyPressEvent
ReturnBranch_classifier(text) ==
    LET tm == task_match(text)
        um == ul_match(text)
        om == ol_match(text)
        t == identify_block_type(text)
    IN  IF tm.ok /\ Len(strip(text)) = Len(strip(Take(text, tm.end)))
        THEN "remove"
        ELSE IF um.ok /\ strip(text) = <<um.marker>> THEN "remove"
        ELSE IF om.ok /\ strip(text) = om.marker \o <<".">> THEN "remove"
        ELSE IF t = "task" THEN "task"
        ELSE IF t = "ul" THEN "ul"
        ELSE IF t = "ol" THEN "ol"
        ELSE "super"

\* the branch keyPressEvent takes on Return
ReturnBranch(text) ==
    LET tm == task_match(text)
        um == ul_match(text)
        om == ol_match(text)
    IN  IF tm.ok /\ Len(strip(text)) = Len(strip(Take(text, tm.end)))
        THEN "remove"
        ELSE IF um.ok /\ strip(text) = <<um.marker>> THEN "remove"
        ELSE IF om.ok /\ strip(text) = om.marker \o <<".">> THEN "remove"
        ELSE IF tm.ok THEN "task"
        ELSE IF um.ok THEN "ul"
        ELSE IF om.ok THEN "ol"
        ELSE "super"

\* ContinuationPrefix carrying the check state of the task line over
ContinuationPrefix_keep_state(text) ==
    LET b == ReturnBranch(text)
    IN  IF b = "task"
        THEN task_match(text).indent
             \o <<task_match(text).marker, " ", "[",
                  text[Len(task_match(text).indent) + 4], "]", " ">>
        ELSE IF b = "ul"
        THEN ul_match(text).indent \o <<ul_match(text).marker, " ">>
        ELSE ol_match(text).indent \o str(int(ol_match(text).marker) + 1)
             \o <<".", " ">>

\* ContinuationPrefix incrementing the last digit only, without a carry
ContinuationPrefix_no_carry(text) ==
    LET b == ReturnBranch(text)
        ds == ol_match(text).marker
    IN  IF b = "task"
        THEN task_match(text).indent
             \o <<task_match(text).marker, " ", "[", " ", "]", " ">>
        ELSE IF b = "ul"
        THEN ul_match(text).indent \o <<ul_match(text).marker, " ">>
        ELSE ol_match(text).indent
             \o SubSeq(ds, 1, Len(ds) - 1)
             \o <<DigitSeq[((DigitVal(ds[Len(ds)]) + 1) % 10) + 1]>>
             \o <<".", " ">>

\* ContinuationPrefix writing the bullet "-" whatever the line's bullet is
ContinuationPrefix_dash(text) ==
    LET b == ReturnBranch(text)
    IN  IF b = "task"
        THEN task_match(text).indent
             \o <<task_match(text).marker, " ", "[", " ", "]", " ">>
        ELSE IF b = "ul"
        THEN ul_match(text).indent \o <<"-", " ">>
        ELSE ol_match(text).indent \o str(int(ol_match(text).marker) + 1)
             \o <<".", " ">>

\* the prefix keyPressEvent hands to insert_new_line_with_prefix
ContinuationPrefix(text) ==
    LET b == ReturnBranch(text)
    IN  IF b = "task"
        THEN task_match(text).indent
             \o <<task_match(text).marker, " ", "[", " ", "]", " ">>
        ELSE IF b = "ul"
        THEN ul_match(text).indent \o <<ul_match(text).marker, " ">>
        ELSE ol_match(text).indent \o str(int(ol_match(text).marker) + 1)
             \o <<".", " ">>

\* the text and the caret after keyPressEvent
keyPressEvent_result(d, p, key) ==
    LET text == d[BlockOf(d, p)]
        b == ReturnBranch(text)
    IN  IF key = Key_Return /\ b = "remove"
        THEN remove_current_line_marker(d, p)
        ELSE IF key = Key_Return /\ b # "super"
        THEN insert_new_line_with_prefix(d, p, ContinuationPrefix(text))
        ELSE super_keyPressEvent(d, p, key)

\* a key is pressed; the edit raises cursorPositionChanged, then textChanged
keyPressEvent(key) ==
    /\ Quiescent
    /\ ~sel
    /\ keys < MaxKeys
    /\ LET r == keyPressEvent_result(doc, cur, key)
       IN  /\ r.doc # doc
           /\ doc' = r.doc
           /\ cur' = r.cur
    /\ stack' = <<CursorPositionChanged, TextChanged>>
    /\ event' = key
    /\ keys' = keys + 1
    /\ UNCHANGED <<sel, is_fixing, blocked>>
    /\ UNCHANGED preview

(***************************************************************************)
(* The other events of the host.                                           *)
(***************************************************************************)
\* the caret is moved by the mouse or an arrow key, extending a selection
\* (s) or not
move_caret(p, s) ==
    /\ Quiescent
    /\ keys < MaxKeys
    /\ p # cur
    /\ cur' = p
    /\ sel' = s
    /\ stack' = <<CursorPositionChanged>>
    /\ event' = "move"
    /\ keys' = keys + 1
    /\ UNCHANGED <<doc, is_fixing, blocked>>
    /\ UNCHANGED preview

\* open_file: self.editor.setPlainText(f.read())
open_file(d) ==
    /\ Quiescent
    /\ doc' = d
    /\ cur' = 0
    /\ sel' = FALSE
    /\ stack' = <<TextChanged>>
    /\ event' = "open_file"
    /\ keys' = 0
    /\ UNCHANGED <<is_fixing, blocked>>
    /\ UNCHANGED preview

\* paste_from_clipboard: self.editor.insertPlainText(text)
paste_from_clipboard(t) ==
    /\ Quiescent
    /\ ~sel
    /\ doc' = InsertText(doc, cur, t)
    /\ cur' = cur + TextLen(t)
    /\ stack' = <<CursorPositionChanged, TextChanged>>
    /\ event' = "paste"
    /\ UNCHANGED <<sel, is_fixing, blocked, keys>>
    /\ UNCHANGED preview

(***************************************************************************)
(* The preview: debounce_timer is single-shot, every textChanged starts it *)
(* again, and its timeout calls update_preview; update_preview is also     *)
(* called by load_external_file and by open_settings_dialog.  The timer    *)
(* expires when the event loop has been idle for its interval.             *)
(***************************************************************************)
\* one call of update_preview: it reads the buffer and sets the page
update_preview ==
    /\ renders < MaxRenders
    /\ renders' = renders + 1

\* self.debounce_timer.timeout.connect(self.update_preview)
timeout ==
    /\ Quiescent
    /\ debounce_timer
    /\ debounce_timer' = FALSE
    /\ update_preview
    /\ UNCHANGED editor

\* load_external_file up to the end of setPlainText; its call of
\* update_preview follows the handlers of textChanged
load_external_file(d) ==
    /\ Quiescent
    /\ doc' = d
    /\ cur' = 0
    /\ sel' = FALSE
    /\ stack' = <<TextChanged, Frame("update_preview", 0, <<>>, 0)>>
    /\ event' = "load_external_file"
    /\ keys' = 0
    /\ UNCHANGED <<is_fixing, blocked>>
    /\ UNCHANGED preview

\* load_external_file: self.update_preview()
load_update_preview ==
    /\ stack # <<>>
    /\ Head(stack).pc = "update_preview"
    /\ update_preview
    /\ stack' = Tail(stack)
    /\ UNCHANGED <<doc, cur, sel, is_fixing, blocked, event, keys>>
    /\ UNCHANGED debounce_timer

\* open_settings_dialog, accepted: self.update_preview()
open_settings_dialog ==
    /\ Quiescent
    /\ update_preview
    /\ UNCHANGED editor
    /\ UNCHANGED debounce_timer

(***************************************************************************)
(* The inputs of the explored sessions.                                    *)
(***************************************************************************)
\* the texts of 1..n lines over the lines of S
DocsOver(S, n) == UNION {[1..k -> S] : k \in 1..n}

\* lines of the files opened in the event sessions
HostLines ==
    { <<"a">>,
      <<"-", " ", "a">>,
      <<"-", " ", "[", "]">>,
      <<"-", " ", "[", " ", "]", " ", "a">>,
      <<" ", "*", " ", "[", "X", "]", " ", "a">>,
      <<"-", " ", "[", "x", "]">>,
      <<" ", "9", ".", " ", "a">>,
      <<"-", " ">>,
      <<"-", " ", "[", "x", "x", "]", " ">>,
      <<" ", "+", " ", "a">>,
      <<"1", ".", "a">> }

HostDocs == DocsOver(HostLines, MaxLines)

\* lines of the texts opened or pasted in the repair sessions
PassLines ==
    { <<>>,
      <<"a">>,
      <<" ", "a">>,
      <<"-", " ", "a">>,
      <<" ", "-", " ", "a">>,
      <<"1", ".", " ", "a">>,
      <<"-", " ", "[", " ", "]", " ", "a">>,
      <<"|", "a">>,
      <<Backtick, Backtick, Backtick>>,
      <<"#", " ", "a">>,
      <<"-", "-", "-">> }

PassDocs == DocsOver(PassLines, MaxPassLines)

\* the keys pressed: Return, Backspace and two characters
Keys == {Key_Return, Key_Backspace, "x", " "}

(***************************************************************************)
(* Specifications.                                                         *)
(***************************************************************************)
\* the steps of the engine itself
Engine ==
    \/ auto_fix_spacing
    \/ fix_restore
    \/ fix_done
    \/ check_task_toggle
    \/ toggle_emit

\* event sessions: a file is opened, then keys and caret moves
Next ==
    \/ keys = 0 /\ \E d \in HostDocs : open_file(d)
    \/ \E key \in Keys : keyPressEvent(key)
    \/ \E p \in 0..Size(doc), s \in BOOLEAN : move_caret(p, s)
    \/ auto_fix_spacing
    \/ fix_restore
    \/ fix_done
    \/ check_task_toggle
    \/ toggle_emit

Spec == Init /\ [][Next]_vars

\* the engine is never preempted: a pending call is always run
LiveSpec == Spec /\ WF_vars(Engine)

\* preview sessions: the program is started on a file or a file is opened,
\* then keys, caret moves, the settings dialog and expiries of the timer
NextPreview ==
    \/ keys = 0 /\ \E d \in HostDocs : open_file(d)
    \/ event = "none" /\ \E d \in HostDocs : load_external_file(d)
    \/ \E key \in Keys : keyPressEvent(key)
    \/ \E p \in 0..Size(doc), s \in BOOLEAN : move_caret(p, s)
    \/ timeout
    \/ open_settings_dialog
    \/ load_update_preview
    \/ auto_fix_spacing
    \/ fix_restore
    \/ fix_done
    \/ check_task_toggle
    \/ toggle_emit

PreviewSpec == Init /\ [][NextPreview]_vars

\* a line of the event sessions between an opening and a closing fence
FencedDocs ==
    {<<<<Backtick, Backtick, Backtick>>, l, <<Backtick, Backtick, Backtick>>>> :
        l \in HostLines}

\* fence sessions: a file with one fenced line is opened, then keys and
\* caret moves
NextFenced ==
    \/ keys = 0 /\ \E d \in FencedDocs : open_file(d)
    \/ \E key \in Keys : keyPressEvent(key)
    \/ \E p \in 0..Size(doc), s \in BOOLEAN : move_caret(p, s)
    \/ auto_fix_spacing
    \/ fix_restore
    \/ fix_done
    \/ check_task_toggle
    \/ toggle_emit

FencedSpec == Init /\ [][NextFenced]_vars

\* repair sessions: a text is opened, or pasted into the empty buffer
NextPass ==
    \/ doc = << <<>> >> /\ \E d \in PassDocs : open_file(d)
    \/ doc = << <<>> >> /\ \E t \in PassDocs : paste_from_clipboard(t)
    \/ auto_fix_spacing
    \/ fix_restore
    \/ fix_done
    \/ check_task_toggle

PassSpec == Init /\ [][NextPass]_vars

(***************************************************************************)
(* Notions the claims are stated with.                                     *)
(***************************************************************************)
\* the fence lines among the first n lines of d
FencesBefore(d, n) == {j \in 1..n : IsFence(d[j])}

\* line i is neither a fence line nor inside a code-fence region
Outside(d, i) == ~IsFence(d[i]) /\ Cardinality(FencesBefore(d, i - 1)) % 2 = 0

\* line i lies strictly between an opening fence line and its closing one
Fenced(d, i) ==
    \E a \in 1..(i - 1), b \in (i + 1)..Len(d) :
        /\ IsFence(d[a])
        /\ IsFence(d[b])
        /\ \A j \in (a + 1)..(b - 1) : ~IsFence(d[j])
        /\ Cardinality(FencesBefore(d, a - 1)) % 2 = 0

\* the block type the rule table is given for the line before line i
TypeBefore(d, i) == IF IsFence(d[i - 1]) THEN "code_fence"
                    ELSE identify_block_type(d[i - 1])

IndentBefore(d, i) == IF IsFence(d[i - 1]) THEN 0 ELSE get_indent(d[i - 1])

\* line i is in conflict with the line immediately before it
InConflict(d, i) ==
    check_conflict(TypeBefore(d, i), identify_block_type(d[i]),
                   IndentBefore(d, i), get_indent(d[i]))

RendererSafe(d) == \A i \in 2..Len(d) : Outside(d, i) => ~InConflict(d, i)

IsListLike(text) == identify_block_type(text) \in list_types

IsPlainText(text) == identify_block_type(text) = "text"

\* what one repair pass makes of the text d
PassResult(d) ==
    ApplyInserts(d, Reverse(InsertPositions(d)), Len(InsertPositions(d)))

\* the offsets of a plan, and how many of them are at or before offset p
Offsets(plan) == {plan[k] : k \in 1..Len(plan)}

AtOrBefore(plan, p) == Cardinality({k \in 1..Len(plan) : plan[k] <= p})

\* a call of auto_fix_spacing that made insertions is in progress
Applying == \E k \in 1..Len(stack) : stack[k].pc \in {"fix_restore", "fix_done"}

(***************************************************************************)
(* C1.  Whenever control is back in the host event loop, no line outside   *)
(* a code fence is in conflict with the line immediately before it.        *)
(***************************************************************************)
C1_RendererSafe == Quiescent => RendererSafe(doc)

\* after a line break, a separator stands between two lines that conflict
C1_Witness ==
    /\ Quiescent
    /\ event = Key_Return
    /\ \E i \in 2..(Len(doc) - 1) :
          /\ doc[i] = <<>>
          /\ check_conflict(identify_block_type(doc[i - 1]),
                            identify_block_type(doc[i + 1]),
                            get_indent(doc[i - 1]), get_indent(doc[i + 1]))

(***************************************************************************)
(* C6.  When a repair pass that started with the caret at offset c and     *)
(* made the insertions P returns, the caret is at c plus the number of     *)
(* offsets of P that are at or before c.                                   *)
(***************************************************************************)
C6_CaretPreserved ==
    (stack # <<>> /\ Head(stack).pc = "fix_done") =>
        cur = Head(stack).entry_pos
              + AtOrBefore(Head(stack).insert_positions, Head(stack).entry_pos)

(***************************************************************************)
(* C2.  The repair pass is idempotent: on the text one pass leaves, a      *)
(* second pass plans no insertion, so it changes neither text nor caret.   *)
(***************************************************************************)
C2_Idempotent ==
    /\ InsertPositions(PassResult(doc)) = <<>>
    /\ PassResult(PassResult(doc)) = PassResult(doc)

\* a pass has just made two or more insertions, and a second pass on its
\* text has nothing to do
C2_Witness ==
    /\ stack # <<>>
    /\ Head(stack).pc = "fix_restore"
    /\ Len(Head(stack).insert_positions) >= 2
    /\ InsertPositions(doc) = <<>>

(***************************************************************************)
(* C3.  A plain-text line immediately followed by a list-like line,        *)
(* outside code fences, gets exactly one empty line between the two by     *)
(* one repair pass, whatever the indentation of the two lines.             *)
(***************************************************************************)
C3_TextThenList ==
    \A i \in 1..(Len(doc) - 1) :
        (/\ Outside(doc, i) /\ Outside(doc, i + 1)
         /\ IsPlainText(doc[i]) /\ IsListLike(doc[i + 1]))
        => LET plan == InsertPositions(doc)
               p == BlockPosition(doc, i + 1)
               j == i + 1 + AtOrBefore(plan, p)
               r == PassResult(doc)
           IN  /\ Cardinality({k \in 1..Len(plan) : plan[k] = p}) = 1
               /\ r[j] = doc[i + 1]
               /\ r[j - 1] = <<>>
               /\ r[j - 2] = doc[i]

\* a pass has put an empty line between an indented plain line and a list
\* item that is not indented
C3_Witness ==
    /\ Applying
    /\ \E i \in 1..(Len(doc) - 2) :
          /\ IsPlainText(doc[i]) /\ get_indent(doc[i]) > 0
          /\ doc[i + 1] = <<>>
          /\ IsListLike(doc[i + 2]) /\ get_indent(doc[i + 2]) = 0

(***************************************************************************)
(* C4.  A list-like line immediately followed by a plain-text line gets a  *)
(* separator if and only if the plain line's indent is less than or equal  *)
(* to the list line's.                                                     *)
(***************************************************************************)
C4_ListThenText ==
    \A i \in 1..(Len(doc) - 1) :
        (/\ Outside(doc, i) /\ Outside(doc, i + 1)
         /\ IsListLike(doc[i]) /\ IsPlainText(doc[i + 1]))
        => (BlockPosition(doc, i + 1) \in Offsets(InsertPositions(doc))
            <=> get_indent(doc[i + 1]) <= get_indent(doc[i]))

\* a pass has run and left a deeper plain line directly under a list item
C4_Witness ==
    /\ Applying
    /\ \E i \in 1..(Len(doc) - 1) :
          /\ IsListLike(doc[i]) /\ IsPlainText(doc[i + 1])
          /\ get_indent(doc[i + 1]) > get_indent(doc[i])

(***************************************************************************)
(* C5.  A line strictly between an opening and a closing fence line is     *)
(* opaque: the plan holds no offset of it and the scan never classifies    *)
(* it.                                                                     *)
(***************************************************************************)
C5_FenceOpaque ==
    \A i \in 1..Len(doc) :
        Fenced(doc, i) =>
            /\ BlockPosition(doc, i) \notin Offsets(InsertPositions(doc))
            /\ i \notin Scan(doc, Len(doc)).classified

\* the pass has run on an opened text whose fence holds a table row
C5_Witness ==
    /\ Quiescent
    /\ event = "open_file"
    /\ \E i \in 1..Len(doc) :
          Fenced(doc, i) /\ identify_block_type(doc[i]) = "table"

(***************************************************************************)
(* C7.  A textChanged delivered while the pass applies its insertions      *)
(* returns without touching text, caret or flag; is_fixing is set exactly  *)
(* while a pass that made insertions has not returned.                     *)
(***************************************************************************)
C7_Guard ==
    /\ [](is_fixing <=> Applying)
    /\ [][(stack # <<>> /\ Head(stack).pc = "textChanged" /\ is_fixing)
          => (/\ doc' = doc
              /\ cur' = cur
              /\ is_fixing' = is_fixing
              /\ stack' = Tail(stack))]_vars

\* the notifications raised by the insertions have been delivered and
\* dropped, the pass is about to restore the caret
C7_Witness ==
    /\ is_fixing
    /\ stack # <<>>
    /\ Head(stack).pc = "fix_restore"

(***************************************************************************)
(* C8.  The handling of every host event terminates: the engine always     *)
(* comes back to the host event loop.                                      *)
(***************************************************************************)
C8_Terminates == []<>Quiescent

\* a caret move has flipped a checkbox, the flip has made the pass insert
\* a separator, and the engine is quiescent again
C8_Witness ==
    /\ Quiescent
    /\ event = "move"
    /\ \E i \in 2..(Len(doc) - 1) :
          /\ doc[i] = <<>>
          /\ identify_block_type(doc[i - 1]) = "ul"
          /\ identify_block_type(doc[i + 1]) = "task"

(***************************************************************************)
(* C9.  A line break on a task line with text after its marker inserts a   *)
(* line break followed by the line's indent, its bullet character and the  *)
(* unchecked marker, whatever the check state of the line.                 *)
(***************************************************************************)
\* the text d with prefix put on a new line at offset p
SplitWith(d, p, prefix) ==
    LET i == BlockOf(d, p)
        k == PositionInBlock(d, p)
    IN  SubSeq(d, 1, i - 1) \o <<Take(d[i], k), prefix \o Drop(d[i], k)>>
        \o SubSeq(d, i + 1, Len(d))

\* the step is keyPressEvent handling Return
ReturnPressed == Quiescent /\ ~Quiescent' /\ event' = Key_Return

IndentOf(text) == Take(text, get_indent(text))

C9_TaskContinuation ==
    [][LET text == doc[BlockOf(doc, cur)]
       IN  (/\ ReturnPressed
            /\ task_match(text).ok
            /\ Len(strip(text)) > 5)
           => doc' = SplitWith(doc, cur,
                        IndentOf(text)
                        \o <<text[get_indent(text) + 1],
                             " ", "[", " ", "]", " ">>)]_vars

\* Return at the end of a checked item has just added an unchecked one
C9_Witness ==
    /\ event = Key_Return
    /\ Len(stack) = 2
    /\ \E i \in 1..(Len(doc) - 1) :
          /\ task_match(doc[i]).ok
          /\ doc[i][get_indent(doc[i]) + 4] \in {"x", "X"}
          /\ doc[i + 1] = IndentOf(doc[i])
                          \o <<doc[i][get_indent(doc[i]) + 1],
                               " ", "[", " ", "]", " ">>
          /\ cur = BlockPosition(doc, i + 1) + Len(doc[i + 1])

(***************************************************************************)
(* C10.  A line break on an ordered item 'N. text' inserts a line break    *)
(* followed by the line's indent and the marker of N + 1; no other line    *)
(* of the buffer takes part.                                               *)
(***************************************************************************)
C10_OrderedContinuation ==
    [][LET text == doc[BlockOf(doc, cur)]
           m == ol_match(text)
       IN  (/\ ReturnPressed
            /\ m.ok
            /\ strip(text) # m.marker \o <<".">>)
           => doc' = SplitWith(doc, cur,
                        IndentOf(text) \o str(int(m.marker) + 1)
                        \o <<".", " ">>)]_vars

\* Return at the end of item 9 has just added the marker of item 10
C10_Witness ==
    /\ event = Key_Return
    /\ Len(stack) = 2
    /\ \E i \in 1..(Len(doc) - 1) :
          /\ doc[i] = <<" ", "9", ".", " ", "a">>
          /\ doc[i + 1] = <<" ", "1", "0", ".", " ">>
          /\ cur = BlockPosition(doc, i + 1) + 5

(***************************************************************************)
(* C11.  A line break on an unordered item with text after its marker      *)
(* inserts a line break followed by the line's indent, its bullet          *)
(* character ('-', '*' or '+') and one space.                              *)
(***************************************************************************)
C11_UnorderedContinuation ==
    [][LET text == doc[BlockOf(doc, cur)]
           m == ul_match(text)
       IN  (/\ ReturnPressed
            /\ m.ok
            /\ ~task_match(text).ok
            /\ strip(text) # <<m.marker>>)
           => /\ doc' = SplitWith(doc, cur,
                            IndentOf(text)
                            \o <<text[get_indent(text) + 1], " ">>)
              /\ text[get_indent(text) + 1] \in {"-", "*", "+"}]_vars

\* Return at the end of an indented '+' item has just added a '+' item
C11_Witness ==
    /\ event = Key_Return
    /\ Len(stack) = 2
    /\ \E i \in 1..(Len(doc) - 1) :
          /\ doc[i] = <<" ", "+", " ", "a">>
          /\ doc[i + 1] = <<" ", "+", " ">>
          /\ cur = BlockPosition(doc, i + 1) + 3

(***************************************************************************)
(* C12.  A line break on a bare list marker replaces the caret's line by   *)
(* a single empty line: no marker is inserted, every other line and the    *)
(* number of lines are unchanged, wherever the line is, the first line     *)
(* included.                                                               *)
(***************************************************************************)
\* text is a task, unordered or ordered marker with nothing after it
BareMarker(text) ==
    \/ task_match(text).ok /\ Len(strip(text)) = 5
    \/ ul_match(text).ok /\ strip(text) = <<ul_match(text).marker>>
    \/ ol_match(text).ok /\ strip(text) = ol_match(text).marker \o <<".">>

C12_BareMarkerTerminates ==
    [][LET i == BlockOf(doc, cur)
       IN  (ReturnPressed /\ BareMarker(doc[i]))
           => doc' = [doc EXCEPT ![i] = <<>>]]_vars

(***************************************************************************)
(* C13.  A line break on a line that matches none of the task, unordered   *)
(* and ordered patterns is left to the editing surface: the only edit is   *)
(* one line break at the caret, with no prefix.                            *)
(***************************************************************************)
C13_DefaultLineBreak ==
    [][LET text == doc[BlockOf(doc, cur)]
       IN  (/\ ReturnPressed
            /\ ~task_match(text).ok
            /\ ~ul_match(text).ok
            /\ ~ol_match(text).ok)
           => /\ doc' = SplitWith(doc, cur, <<>>)
              /\ cur' = cur + 1]_vars

\* Return after the dot of '1.a', a line no pattern of the handler matches
C13_Witness ==
    /\ event = Key_Return
    /\ Len(stack) = 2
    /\ \E i \in 1..(Len(doc) - 1) :
          /\ doc[i] = <<"1", ".">>
          /\ doc[i + 1] = <<"a">>
          /\ cur = BlockPosition(doc, i + 1)

(***************************************************************************)
(* Notions of the claims about the Task Toggle Controller.                 *)
(***************************************************************************)
\* the step is a call of check_task_toggle
ToggleCall == stack # <<>> /\ Head(stack).pc = "cursorPositionChanged"

\* offset p is after the opening and at or before the closing bracket of
\* a checkbox pattern on its line
CaretInBrackets(d, p) ==
    LET m == toggle_match(d[BlockOf(d, p)])
    IN  /\ m.ok
        /\ m.bracket_start < PositionInBlock(d, p)
        /\ PositionInBlock(d, p) <= m.end - 1

\* the call flips the checkbox under the caret
Flips == ToggleCall /\ ~sel /\ CaretInBrackets(doc, cur)

\* the toggle has just rewritten the checkbox of the caret's line
JustFlipped == stack # <<>> /\ Head(stack).pc = "toggle_emit"

Blank(content) == \A k \in 1..Len(content) : content[k] = " "

(***************************************************************************)
(* C14.  A caret move with no selection into the brackets of a checkbox    *)
(* pattern flips the check state: content that is empty or only spaces     *)
(* becomes 'x', content with an x or X becomes one space.                  *)
(***************************************************************************)
C14_FlipState ==
    [][Flips =>
        LET i == BlockOf(doc, cur)
            old == toggle_match(doc[i])
            new == toggle_match(doc'[i])
        IN  /\ new.ok
            /\ new.bracket_start = old.bracket_start
            /\ new.content = IF Blank(old.content) THEN <<"x">>
                              ELSE <<" ">>]_vars

\* a caret move has just checked a checkbox that was empty
C14_Witness ==
    /\ JustFlipped
    /\ event = "move"
    /\ doc[BlockOf(doc, cur)] = <<"-", " ", "[", "x", "]">>
    /\ Len(stack) = 1

(***************************************************************************)
(* C15.  After every flip the caret is immediately after the closing       *)
(* bracket of the rewritten checkbox (or at the end of the line if that    *)
(* would be beyond it), whatever run of space, x, X the brackets held.     *)
(***************************************************************************)
C15_CaretPastBracket ==
    JustFlipped =>
        LET i == BlockOf(doc, cur)
            m == toggle_match(doc[i])
        IN  /\ m.ok
            /\ cur = BlockPosition(doc, i) + Min(m.end, Len(doc[i]))

(***************************************************************************)
(* C16.  Round trip: a flip of a checkbox '[ ]' or '[x]' leaves a line     *)
(* that the next flip turns back into exactly the original line, and       *)
(* leaves the caret outside the brackets, so that one caret placement is   *)
(* one flip.                                                               *)
(***************************************************************************)
C16_RoundTrip ==
    [][LET i == BlockOf(doc, cur)
       IN  (Flips /\ toggle_match(doc[i]).content \in {<<" ">>, <<"x">>})
           => /\ Flipped(doc'[i], toggle_match(doc'[i])) = doc[i]
              /\ ~CaretInBrackets(doc', cur')]_vars

\* the second of two caret placements has flipped '- [x] a' back to the
\* line of the opened file
C16_Witness ==
    /\ JustFlipped
    /\ keys = 2
    /\ doc[BlockOf(doc, cur)] = <<"-", " ", "[", " ", "]", " ", "a">>

(***************************************************************************)
(* C17.  A flip changes only the characters from '[' to ']' of the         *)
(* caret's line: what is before the bracket, what is after it, every       *)
(* other line and the number of lines are unchanged.                       *)
(***************************************************************************)
C17_FlipFrame ==
    [][Flips =>
        LET i == BlockOf(doc, cur)
            m == toggle_match(doc[i])
        IN  /\ Len(doc') = Len(doc)
            /\ \A j \in 1..Len(doc) : j # i => doc'[j] = doc[j]
            /\ Take(doc'[i], m.bracket_start) = Take(doc[i], m.bracket_start)
            /\ Len(doc'[i]) >= m.bracket_start + 3
            /\ doc'[i][m.bracket_start + 1] = "["
            /\ doc'[i][m.bracket_start + 3] = "]"
            /\ Drop(doc'[i], m.bracket_start + 3) = Drop(doc[i], m.end)]_vars

\* an indented checked item with text after it has just been unchecked,
\* in a text of several lines
C17_Witness ==
    /\ JustFlipped
    /\ Len(doc) >= 2
    /\ doc[BlockOf(doc, cur)] = <<" ", "*", " ", "[", " ", "]", " ", "a">>

(***************************************************************************)
(* C18.  The replacement and the caret move of a flip are made with the    *)
(* notifications suppressed: they call neither the toggle nor the repair   *)
(* pass.  When the suppression is lifted exactly one content-changed       *)
(* notification is raised, and a call that does not flip raises none.      *)
(***************************************************************************)
C18_SuppressedThenOne ==
    /\ [](blocked <=> JustFlipped)
    /\ [][Flips => /\ blocked'
                    /\ stack' = <<ToggleEmit>> \o Tail(stack)]_vars
    /\ [][JustFlipped => /\ ~blocked'
                          /\ stack' = <<TextChanged>> \o Tail(stack)
                          /\ doc' = doc
                          /\ cur' = cur]_vars
    /\ [][(ToggleCall /\ ~Flips) => stack' = Tail(stack)]_vars

\* the one textChanged of a flip is about to be delivered, no other call
\* is pending
C18_Witness ==
    /\ event = "move"
    /\ ~blocked
    /\ stack = <<TextChanged>>
    /\ toggle_match(doc[BlockOf(doc, cur)]).ok

(***************************************************************************)
(* C19.  The toggle does nothing (text and caret unchanged, no             *)
(* notification raised) when a selection is active, when the caret's line  *)
(* has no checkbox pattern, and when the caret is at or before the         *)
(* opening bracket or after the closing one.                               *)
(***************************************************************************)
C19_ToggleNoOp ==
    [][(ToggleCall /\ (sel \/ ~CaretInBrackets(doc, cur)))
       => /\ doc' = doc
          /\ cur' = cur
          /\ sel' = sel
          /\ blocked' = blocked
          /\ stack' = Tail(stack)]_vars

\* the caret was moved into a checkbox while extending a selection, and
\* the call has returned
C19_Witness ==
    /\ Quiescent
    /\ event = "move"
    /\ sel
    /\ CaretInBrackets(doc, cur)

(***************************************************************************)
(* C20.  Two adjacent list-like lines of different types get a separator   *)
(* if and only if the second line's indent is less than or equal to the    *)
(* first line's; two adjacent list lines of the same type never get one.   *)
(***************************************************************************)
C20_ListThenList ==
    \A i \in 1..(Len(doc) - 1) :
        (/\ Outside(doc, i) /\ Outside(doc, i + 1)
         /\ IsListLike(doc[i]) /\ IsListLike(doc[i + 1]))
        => (BlockPosition(doc, i + 1) \in Offsets(InsertPositions(doc))
            <=> /\ identify_block_type(doc[i])
                   # identify_block_type(doc[i + 1])
                /\ get_indent(doc[i + 1]) <= get_indent(doc[i]))

\* a pass has separated two list items of different types and left two
\* items of one type, the second less indented, next to each other
C20_Witness ==
    /\ Applying
    /\ \E i \in 1..(Len(doc) - 2) :
          /\ IsListLike(doc[i]) /\ IsListLike(doc[i + 2])
          /\ doc[i + 1] = <<>>
          /\ identify_block_type(doc[i]) # identify_block_type(doc[i + 2])
    /\ \E i \in 1..(Len(doc) - 1) :
          /\ identify_block_type(doc[i]) = "ul"
          /\ identify_block_type(doc[i + 1]) = "ul"
          /\ get_indent(doc[i + 1]) < get_indent(doc[i])

(***************************************************************************)
(* C21.  The table rule is symmetric: for every block type X other than    *)
(* empty and table, X followed by a table row and a table row followed by  *)
(* X both need a separator; two adjacent table rows never do.              *)
(***************************************************************************)
\* the block types the rule table can be asked about
BlockTypes == {"empty", "text", "task", "ul", "ol", "hr", "table",
               "code_fence"}

IsTable(text) == identify_block_type(text) = "table"

C21_TableSymmetric ==
    /\ \A X \in BlockTypes \ {"empty", "table"} :
       \A i1, i2 \in 0..MaxPassLines :
          /\ check_conflict(X, "table", i1, i2)
          /\ check_conflict("table", X, i1, i2)
          /\ ~check_conflict("table", "table", i1, i2)
    /\ \A i \in 1..(Len(doc) - 1) :
          (/\ Outside(doc, i) /\ Outside(doc, i + 1)
           /\ doc[i] # <<>> /\ doc[i + 1] # <<>>)
          => (BlockPosition(doc, i + 1) \in Offsets(InsertPositions(doc))
              <=> \/ IsTable(doc[i]) # IsTable(doc[i + 1])
                  \/ InConflict(doc, i + 1))
    /\ \A i \in 1..(Len(doc) - 1) :
          (Outside(doc, i + 1) /\ IsTable(doc[i]) /\ IsTable(doc[i + 1]))
          => BlockPosition(doc, i + 1) \notin Offsets(InsertPositions(doc))

\* a pass has separated a table row from the list item before it and from
\* the plain line after it
C21_Witness ==
    /\ Applying
    /\ \E i \in 1..(Len(doc) - 4) :
          /\ IsListLike(doc[i])
          /\ doc[i + 1] = <<>>
          /\ IsTable(doc[i + 2])
          /\ doc[i + 3] = <<>>
          /\ IsPlainText(doc[i + 4])

(***************************************************************************)
(* C22.  Preview debounce: every emission of textChanged starts the        *)
(* single-shot timer again, and the preview is rendered only when the      *)
(* timer expires, so the changes of a burst are rendered exactly once,     *)
(* after the last of them.                                                 *)
(***************************************************************************)
\* this step delivers textChanged to its slots
Notified == stack # <<>> /\ Head(stack).pc = "textChanged" /\ stack' # stack

\* this step calls update_preview
Rendered == renders' = renders + 1

\* this step is the expiry of the timer
Expired == Quiescent /\ debounce_timer /\ ~debounce_timer'

C22_Debounced ==
    [][/\ Notified => debounce_timer' /\ renders' = 0
       /\ Rendered => Expired /\ renders' = 1]_vars

(***************************************************************************)
(* C23.  The classifier gives every line exactly one tag, that of the      *)
(* first rule that matches in the order empty, heading, task, unordered    *)
(* list, ordered list, horizontal rule, table row, plain text: a heading   *)
(* line is tagged heading, a task line is never tagged as an unordered     *)
(* item, '---' is a horizontal rule and '- - -' an unordered item.         *)
(***************************************************************************)
\* one to six '#' and a whitespace character, after the indent
HeadingLine(text) ==
    LET clean_text == lstrip(text)
        hashes == Run(clean_text, {"#"})
    IN  /\ hashes >= 1 /\ hashes <= 6
        /\ Len(clean_text) > hashes
        /\ clean_text[hashes + 1] \in WS

\* the tags of the precedence order
Tags == {"empty", "heading", "task", "ul", "ol", "hr", "table", "text"}

C23_FirstMatchingRule ==
    /\ identify_block_type(<<"-", "-", "-">>) = "hr"
    /\ identify_block_type(<<"-", " ", "-", " ", "-">>) = "ul"
    /\ \A i \in 1..Len(doc) :
          /\ identify_block_type(doc[i]) \in Tags
          /\ strip(doc[i]) = <<>> <=> identify_block_type(doc[i]) = "empty"
          /\ HeadingLine(doc[i]) <=> identify_block_type(doc[i]) = "heading"
          /\ task_match(doc[i]).ok => identify_block_type(doc[i]) # "ul"

(***************************************************************************)
(* C24.  A heading line immediately next to a list-like line, in either    *)
(* order, gets no separator from the repair pass.                          *)
(***************************************************************************)
C24_HeadingNoSeparator ==
    \A i \in 1..(Len(doc) - 1) :
        (/\ Outside(doc, i) /\ Outside(doc, i + 1)
         /\ \/ HeadingLine(doc[i]) /\ IsListLike(doc[i + 1])
            \/ IsListLike(doc[i]) /\ HeadingLine(doc[i + 1]))
        => BlockPosition(doc, i + 1) \notin Offsets(InsertPositions(doc))

(***************************************************************************)
(* C25.  The indent kept for a classified line is its count of leading     *)
(* whitespace characters when the line is list-like, and 0 when it is not. *)
(***************************************************************************)
C25_IndentOfRecord ==
    \A i \in 1..Len(doc) :
        LET st == Scan(doc, i)
        IN  i \in st.classified
            => st.prev_indent = (IF IsListLike(doc[i]) THEN Run(doc[i], WS)
                                 ELSE 0)

(***************************************************************************)
(* C26.  A line that toggles a code fence or lies inside one is skipped    *)
(* by the scan: it is not classified and it leaves prev_type and           *)
(* prev_indent as they were, so that the first line after a closing fence  *)
(* is compared with the last classified line before the opening fence.     *)
(***************************************************************************)
C26_FenceLinesSkipped ==
    \A i \in 1..Len(doc) :
        ~Outside(doc, i)
        => /\ i \notin Scan(doc, i).classified
           /\ Scan(doc, i).prev_type = Scan(doc, i - 1).prev_type
           /\ Scan(doc, i).prev_indent = Scan(doc, i - 1).prev_indent

(***************************************************************************)
(* C27.  The code-fence mode does not nest: after any number of lines the  *)
(* mode of the scan is the parity of the fence lines among them, so after  *)
(* an opening fence that is never closed every remaining line is opaque    *)
(* and gets no insertion.                                                   *)
(***************************************************************************)
\* line a opens a fence that no later line closes
Unclosed(d, a) ==
    /\ IsFence(d[a])
    /\ Cardinality(FencesBefore(d, a)) % 2 = 1
    /\ \A j \in (a + 1)..Len(d) : ~IsFence(d[j])

C27_FenceParity ==
    /\ \A i \in 0..Len(doc) :
          Scan(doc, i).in_code_block
          <=> Cardinality(FencesBefore(doc, i)) % 2 = 1
    /\ \A a \in 1..Len(doc) :
          Unclosed(doc, a)
          => \A i \in (a + 1)..Len(doc) :
                /\ BlockPosition(doc, i) \notin Offsets(InsertPositions(doc))
                /\ i \notin Scan(doc, Len(doc)).classified

\* the pass has run on an opened text and has left a list item right
\* after a plain line, both behind a fence that is never closed; and on a
\* text whose third fence line reopens the mode
C27_Witness ==
    /\ Quiescent
    /\ event = "open_file"
    /\ \/ /\ Len(doc) = 3
          /\ Unclosed(doc, 1)
          /\ IsPlainText(doc[2])
          /\ IsListLike(doc[3])
       \/ /\ Len(doc) = 3
          /\ Unclosed(doc, 3)

(***************************************************************************)
(* C28.  The repair pass only inserts empty lines: every recorded offset   *)
(* is the start of a non-empty line outside the fences that is not the     *)
(* first line; after the application each inserted empty line stands       *)
(* immediately before the line whose offset was recorded, and the other    *)
(* lines are the lines of the original text, unchanged and in order.       *)
(***************************************************************************)
\* the number of recorded offsets at or before the start of line i
Shift(d, i) == AtOrBefore(InsertPositions(d), BlockPosition(d, i))

C28_OnlyEmptyLines ==
    \E plan \in {InsertPositions(doc)} : \E r \in {PassResult(doc)} :
       /\ \A k \in 1..Len(plan) :
             \E i \in 2..Len(doc) :
                /\ plan[k] = BlockPosition(doc, i)
                /\ Outside(doc, i)
                /\ strip(doc[i]) # <<>>
       /\ Len(r) = Len(doc) + Len(plan)
       /\ \A i \in 1..Len(doc) :
             /\ r[i + Shift(doc, i)] = doc[i]
             /\ BlockPosition(doc, i) \in Offsets(plan)
                => r[i + Shift(doc, i) - 1] = <<>>

\* a pass is applying a plan of two offsets
C28_Witness ==
    \E k \in 1..Len(stack) :
        /\ stack[k].pc \in {"fix_restore", "fix_done"}
        /\ Len(stack[k].insert_positions) = 2
        /\ Len(doc) = 5
        /\ doc[2] = <<>>
        /\ doc[4] = <<>>

(***************************************************************************)
(* C29.  A list continuation adds exactly one line and the default line    *)
(* break is not applied as well: the text left of the caret stays on its   *)
(* line, the new line is the continuation prefix followed by the text      *)
(* that was right of the caret, the caret ends right after the prefix,     *)
(* and the prefix is a function of the caret line's text alone.            *)
(***************************************************************************)
\* text is a list item that keyPressEvent continues on Return
Continued(text) ==
    /\ task_match(text).ok \/ ul_match(text).ok \/ ol_match(text).ok
    /\ ~BareMarker(text)

C29_OneLineAdded ==
    [][LET i == BlockOf(doc, cur)
           k == PositionInBlock(doc, cur)
           text == doc[i]
           prefix == ContinuationPrefix(text)
       IN  (ReturnPressed /\ Continued(text))
           => /\ Len(doc') = Len(doc) + 1
              /\ \A j \in 1..(i - 1) : doc'[j] = doc[j]
              /\ doc'[i] = Take(text, k)
              /\ doc'[i + 1] = prefix \o Drop(text, k)
              /\ \A j \in (i + 1)..Len(doc) : doc'[j + 1] = doc[j]
              /\ cur' = BlockPosition(doc', i + 1) + Len(prefix)
              /\ prefix # <<>>]_vars

\* Return in the middle of '- a', between the marker and the text, has
\* just put the text behind a new marker
C29_Witness ==
    /\ event = Key_Return
    /\ Len(stack) = 2
    /\ doc = << <<"-", " ">>, <<"-", " ", "a">> >>
    /\ cur = 5

(***************************************************************************)
(* C30.  Typing is not interfered with: while a keystroke that inserts or  *)
(* deletes a character is handled, the caret movement it causes does not   *)
(* make check_task_toggle flip a checkbox or put the check character       *)
(* back, so the engine never rewrites what the keystroke did.              *)
(***************************************************************************)
\* the keys that insert or delete one character
TypingKeys == {"x", " ", Key_Backspace}

C30_TypingUndisturbed ==
    [][(ToggleCall /\ event \in TypingKeys) => doc' = doc]_vars

(***************************************************************************)
(* C31.  After a list continuation with the caret at the end of a list     *)
(* item, the repair pass that the edit triggers inserts no empty line      *)
(* between the item and the new marker line: the prefix is classified as   *)
(* the list type of the line it continues.                                 *)
(***************************************************************************)
\* the caret is at the end of its line
AtLineEnd(d, p) == PositionInBlock(d, p) = Len(d[BlockOf(d, p)])

C31_ContinuationStaysAdjacent ==
    [][LET i == BlockOf(doc, cur)
       IN  (ReturnPressed /\ Continued(doc[i]) /\ AtLineEnd(doc, cur))
           => /\ identify_block_type(doc'[i + 1])
                 = identify_block_type(doc[i])
              /\ BlockPosition(doc', i + 1)
                 \notin Offsets(InsertPositions(doc'))]_vars

(***************************************************************************)
(* C32.  One cursorPositionChanged raised by the host flips a checkbox at  *)
(* most once: after the flip, neither the caret it leaves nor the caret    *)
(* movements of the repair pass that its textChanged.emit() starts make    *)
(* check_task_toggle flip again before control is back in the event loop.  *)
(* While a caret move is handled the text changes only by a flip, so a     *)
(* pass in progress is one that a flip has started.                        *)
(***************************************************************************)
C32_FlipsOnce ==
    [][(event = "move" /\ Flips) => ~Applying]_vars

(***************************************************************************)
(* C33.  Text strictly inside a code-fence region is never rewritten by    *)
(* the engine: a caret move onto a fenced line that looks like a task      *)
(* item does not flip its checkbox, and a line break on a fenced line      *)
(* that looks like a list item is the plain line break, which inserts no   *)
(* list marker and removes nothing of the line.                            *)
(***************************************************************************)
C33_FencedUntouched ==
    [][LET i == BlockOf(doc, cur)
       IN  Fenced(doc, i)
           => /\ ToggleCall => doc' = doc
              /\ ReturnPressed => doc' = SplitWith(doc, cur, <<>>)]_vars

====
